---- MODULE Spec2Model ----
(***************************************************************************)
(* Period tracker (src/app2.py): the cycles table, the PeriodTracker       *)
(* operations over it, and the page handlers that call them.               *)
(*                                                                         *)
(* A date string 'YYYY-MM-DD' is the triple <<y, m, d>> of its zero-padded *)
(* fields, so SQLite's text comparison is the lexicographic order on the   *)
(* triple.  A datetime at midnight is its proleptic Gregorian day ordinal  *)
(* (Python's date.toordinal).  SQL NULL / Python None is the empty         *)
(* sequence, a present value x is <<x>>.                                   *)
(***************************************************************************)
EXTENDS Integers, Sequences, FiniteSets

VARIABLES cycles, ret, calls

vars == <<cycles, ret, calls>>

None == <<>>

Some(x) == <<x>>

----------------------------------------------------------------------------
(* Bounds of the exploration.                                              *)

\* Rows the table may hold under Spec.
MaxRecords == 3

\* Rows the table may hold under SpecDeep.
MaxDeepRecords == 8

\* Rows the table may hold under SpecBulk.
MaxBulkRecords == 51

\* Rows the table may hold, calls under way counted in, under SpecThreads.
MaxThreadRecords == 3

----------------------------------------------------------------------------
(* datetime: parsing, formatting and day arithmetic.                       *)

IsLeap(y) == y % 4 = 0 /\ (y % 100 # 0 \/ y % 400 = 0)

DaysInMonth(y, m) ==
    IF m = 2 THEN (IF IsLeap(y) THEN 29 ELSE 28)
    ELSE IF m \in {4, 6, 9, 11} THEN 30 ELSE 31

DaysBeforeYear(y) ==
    (y - 1) * 365 + ((y - 1) \div 4) - ((y - 1) \div 100) + ((y - 1) \div 400)

RECURSIVE DaysBeforeMonth(_, _)
DaysBeforeMonth(y, m) ==
    IF m = 1 THEN 0 ELSE DaysBeforeMonth(y, m - 1) + DaysInMonth(y, m - 1)

\* datetime.strptime(s, '%Y-%m-%d'): the day ordinal of the date string s.
strptime(s) == DaysBeforeYear(s[1]) + DaysBeforeMonth(s[1], s[2]) + s[3]

RECURSIVE YearOf(_, _)
YearOf(n, y) == IF n > DaysBeforeYear(y + 1) THEN YearOf(n, y + 1) ELSE y

RECURSIVE MonthOf(_, _, _)
MonthOf(n, y, m) ==
    IF n > DaysBeforeMonth(y, m) + DaysInMonth(y, m) THEN MonthOf(n, y, m + 1) ELSE m

\* d.strftime('%Y-%m-%d'): the date string of day ordinal n.
strftime(n) ==
    LET y == YearOf(n, n \div 366)
        k == n - DaysBeforeYear(y)
        m == MonthOf(k, y, 1)
    IN  <<y, m, k - DaysBeforeMonth(y, m)>>

\* SQLite's comparison a < b of two TEXT dates.
TextLess(a, b) ==
    \/ a[1] < b[1]
    \/ a[1] = b[1] /\ a[2] < b[2]
    \/ a[1] = b[1] /\ a[2] = b[2] /\ a[3] < b[3]

----------------------------------------------------------------------------
(* PeriodTracker.                                                          *)

\* get_previous_cycle with ORDER BY start_date ASC.
get_previous_cycle_asc(rows, current_start_date) ==
    LET match == {i \in 1..Len(rows) : TextLess(rows[i].start_date, current_start_date)}
        low == {i \in match : \A j \in match : ~TextLess(rows[j].start_date, rows[i].start_date)}
    IN  IF match = {} THEN {None} ELSE {Some(rows[i]) : i \in low}

\* get_previous_cycle with WHERE start_date <= ?.
get_previous_cycle_le(rows, current_start_date) ==
    LET match == {i \in 1..Len(rows) : ~TextLess(current_start_date, rows[i].start_date)}
        top == {i \in match : \A j \in match : ~TextLess(rows[i].start_date, rows[j].start_date)}
    IN  IF match = {} THEN {None} ELSE {Some(rows[i]) : i \in top}

\* The rows fetchone() may return for
\*   SELECT * FROM cycles WHERE start_date < ? ORDER BY start_date DESC LIMIT 1
\* None when no row matches; any of the rows with the greatest start_date
\* otherwise (SQL leaves the order of equal keys open).
get_previous_cycle(rows, current_start_date) ==
    LET match == {i \in 1..Len(rows) : TextLess(rows[i].start_date, current_start_date)}
        top == {i \in match : \A j \in match : ~TextLess(rows[i].start_date, rows[j].start_date)}
    IN  IF match = {} THEN {None} ELSE {Some(rows[i]) : i \in top}

\* The row add_cycle inserts, given what get_previous_cycle returned.
new_row(rows, start_date, end_date, previous_cycle) ==
    [id            |-> Len(rows) + 1,
     start_date    |-> start_date,
     end_date      |-> end_date,
     cycle_length  |-> IF previous_cycle # None
                       THEN Some(strptime(start_date) - strptime(previous_cycle[1].start_date))
                       ELSE None,
     period_length |-> (strptime(end_date) - strptime(start_date)) + 1]

\* add_cycle with period_length taken as end minus start.
add_cycle_no_plus_one(rows, start_date, end_date) ==
    {Append(rows, [new_row(rows, start_date, end_date, p)
                     EXCEPT !.period_length = strptime(end_date) - strptime(start_date)])
        : p \in get_previous_cycle(rows, start_date)}

\* add_cycle, were it to recompute the cycle_length of the rows that start later.
add_cycle_recompute(rows, start_date, end_date) ==
    {[i \in 1..(Len(rows) + 1) |->
        IF i = Len(rows) + 1 THEN new_row(rows, start_date, end_date, p)
        ELSE IF TextLess(start_date, rows[i].start_date)
                /\ rows[i].cycle_length # None
                /\ strptime(rows[i].start_date) - strptime(start_date) < rows[i].cycle_length[1]
             THEN [rows[i] EXCEPT !.cycle_length =
                        Some(strptime(rows[i].start_date) - strptime(start_date))]
             ELSE rows[i]]
        : p \in get_previous_cycle(rows, start_date)}

\* The tables add_cycle may leave: the row is appended, nothing else changes.
add_cycle(rows, start_date, end_date) ==
    {Append(rows, new_row(rows, start_date, end_date, p))
        : p \in get_previous_cycle(rows, start_date)}

\* The orders a query may return the rows with indices S in when it sorts
\* them on a key they all share: the lists of k of them (of all, if fewer).
RECURSIVE any_order(_, _)
any_order(S, k) ==
    IF k = 0 \/ S = {} THEN {<<>>}
    ELSE UNION {{<<i>> \o t : t \in any_order(S \ {i}, k - 1)} : i \in S}

\* The index lists ORDER BY start_date DESC LIMIT k may return over the rows
\* with indices S: the rows of the greatest start_date first, in any order
\* among themselves, then those of the next one, until k rows are out.
RECURSIVE fetch_desc(_, _, _)
fetch_desc(rows, S, k) ==
    IF k = 0 \/ S = {} THEN {<<>>}
    ELSE LET top == {i \in S : \A j \in S : ~TextLess(rows[i].start_date, rows[j].start_date)}
         IN  IF Cardinality(top) >= k THEN any_order(top, k)
             ELSE {p \o t : p \in any_order(top, k),
                            t \in fetch_desc(rows, S \ top, k - Cardinality(top))}

RECURSIVE fetch_asc(_, _, _)
fetch_asc(rows, S, k) ==
    IF k = 0 \/ S = {} THEN {<<>>}
    ELSE LET low == {i \in S : \A j \in S : ~TextLess(rows[j].start_date, rows[i].start_date)}
         IN  IF Cardinality(low) >= k THEN any_order(low, k)
             ELSE {p \o t : p \in any_order(low, k),
                            t \in fetch_asc(rows, S \ low, k - Cardinality(low))}

\* The rows at the indices q, in q's order.
rows_at(rows, q) == [n \in 1..Len(q) |-> rows[q[n]]]

\* get_cycles with ORDER BY start_date ASC.
get_cycles_asc(rows, limit) ==
    {rows_at(rows, q) : q \in fetch_asc(rows, 1..Len(rows), limit)}

\* The default of get_cycles' limit parameter.
DefaultLimit == 50

\* The lists fetchall() may return for
\*   SELECT * FROM cycles ORDER BY start_date DESC LIMIT ?
get_cycles(rows, limit) ==
    {rows_at(rows, q) : q \in fetch_desc(rows, 1..Len(rows), limit)}

RECURSIVE SumSeq(_)
SumSeq(q) == IF q = <<>> THEN 0 ELSE Head(q) + SumSeq(Tail(q))

\* SQL AVG over a column's values: NULL over no rows, else the quotient
\* sum / count, kept as the pair <<sum, count>>.
Avg(q) == IF q = <<>> THEN None ELSE Some(<<SumSeq(q), Len(q)>>)

\* SQL MIN / MAX of the TEXT start_date column (NULL over no rows).
MinDate(q) ==
    IF q = <<>> THEN None
    ELSE Some(CHOOSE a \in {q[i] : i \in 1..Len(q)} :
                 \A i \in 1..Len(q) : ~TextLess(q[i], a))

MaxDate(q) ==
    IF q = <<>> THEN None
    ELSE Some(CHOOSE a \in {q[i] : i \in 1..Len(q)} :
                 \A i \in 1..Len(q) : ~TextLess(a, q[i]))

\* The aggregate row of get_cycle_stats' SELECT list over the rows sel.
stats_of(sel) ==
    [avg_cycle_length  |-> Avg([i \in 1..Len(sel) |-> sel[i].cycle_length[1]]),
     avg_period_length |-> Avg([i \in 1..Len(sel) |-> sel[i].period_length]),
     total_cycles      |-> Len(sel),
     first_record      |-> MinDate([i \in 1..Len(sel) |-> sel[i].start_date]),
     last_record       |-> MaxDate([i \in 1..Len(sel) |-> sel[i].start_date])]

\* get_cycle_stats with COUNT(*) taken over the whole table.
get_cycle_stats_count_all(rows) ==
    [stats_of(SelectSeq(rows, LAMBDA r : r.cycle_length # None))
        EXCEPT !.total_cycles = Len(rows)]

\* The aggregate row over WHERE cycle_length IS NOT NULL.
get_cycle_stats(rows) ==
    stats_of(SelectSeq(rows, LAMBDA r : r.cycle_length # None))

\* How many of the latest cycles predict_next_period fetches.
PredictionCycles == 6

\* predict_next_period after its get_cycles(6) returned the list fetched.
\* The datetime returned is day `day` at the fraction num/den of a day past
\* midnight: last_cycle_start + timedelta(days=sum/len).
predict_from(fetched) ==
    LET with_length == SelectSeq(fetched, LAMBDA r : r.cycle_length # None)
        cycle_lengths == [i \in 1..Len(with_length) |-> with_length[i].cycle_length[1]]
        total == SumSeq(cycle_lengths)
        n == Len(cycle_lengths)
    IN  IF Len(fetched) < 2
        THEN [next |-> None, message |-> "Need more cycle data for accurate prediction", n |-> 0]
        ELSE IF n = 0
        THEN [next |-> None, message |-> "No cycle length data available", n |-> 0]
        ELSE [next |-> Some([day |-> strptime(fetched[1].start_date) + (total \div n),
                             num |-> total % n, den |-> n]),
              message |-> "Based on cycles, average days", n |-> n]

\* The sets of rows (indices in S) ORDER BY start_date DESC LIMIT k may
\* return: every row of a start_date above the cut, any of those at the cut.
RECURSIVE fetch_sets(_, _, _)
fetch_sets(rows, S, k) ==
    IF k = 0 \/ S = {} THEN {{}}
    ELSE LET top == {i \in S : \A j \in S : ~TextLess(rows[i].start_date, rows[j].start_date)}
         IN  IF Cardinality(top) >= k THEN {T \in SUBSET top : Cardinality(T) = k}
             ELSE {top \cup T : T \in fetch_sets(rows, S \ top, k - Cardinality(top))}

\* One of the orders the query may return the rows T in: start_date
\* descending, rows of equal start_date by id.
RECURSIVE in_order(_, _)
in_order(rows, T) ==
    IF T = {} THEN <<>>
    ELSE LET i == CHOOSE i \in T : \A j \in T :
                      /\ ~TextLess(rows[i].start_date, rows[j].start_date)
                      /\ rows[i].start_date = rows[j].start_date => i <= j
         IN  <<rows[i]>> \o in_order(rows, T \ {i})

\* predict_next_period, were it to ask for at least three cycles.
predict_next_period_three(rows) ==
    {IF Cardinality(T) < 3
     THEN [next |-> None, message |-> "Need more cycle data for accurate prediction", n |-> 0]
     ELSE predict_from(in_order(rows, T))
        : T \in fetch_sets(rows, 1..Len(rows), PredictionCycles)}

\* predict_next_period, were it to add the average to the oldest fetched start.
predict_next_period_oldest(rows) ==
    {LET f == in_order(rows, T)
         r == predict_from(f)
     IN  IF r.next = None THEN r
         ELSE [r EXCEPT !.next = Some([r.next[1] EXCEPT !.day =
                  @ - strptime(f[1].start_date) + strptime(f[Len(f)].start_date)])]
        : T \in fetch_sets(rows, 1..Len(rows), PredictionCycles)}

\* The results predict_next_period may return: predict_from over the lists
\* get_cycles(6) may return.  predict_from reads the list's length, its
\* first start_date and the cycle lengths it sums, so the order of rows of
\* equal start_date does not show in it, and one order of each set of rows
\* the query may fetch gives every result (PredictOverGetCycles).
predict_next_period(rows) ==
    {predict_from(in_order(rows, T)) : T \in fetch_sets(rows, 1..Len(rows), PredictionCycles)}

\* Days from ovulation back to the window's start, and on to its end.
OvulationDaysBefore == 14

FertileDaysBefore == 5

FertileDaysAfter == 1

\* The fertility window, were it to end a day before the ovulation.
fertility_window_early(next_period) ==
    LET ovulation_date == [next_period EXCEPT !.day = @ - OvulationDaysBefore]
    IN  [ovulation_date  |-> ovulation_date,
         fertility_start |-> [ovulation_date EXCEPT !.day = @ - FertileDaysBefore],
         fertility_end   |-> [ovulation_date EXCEPT !.day = @ - FertileDaysAfter]]

\* show_predictions' fertility window of a predicted datetime.
fertility_window(next_period) ==
    LET ovulation_date == [next_period EXCEPT !.day = @ - OvulationDaysBefore]
    IN  [ovulation_date  |-> ovulation_date,
         fertility_start |-> [ovulation_date EXCEPT !.day = @ - FertileDaysBefore],
         fertility_end   |-> [ovulation_date EXCEPT !.day = @ + FertileDaysAfter]]

----------------------------------------------------------------------------
(* Inputs.                                                                 *)

\* Dates a form's date_input may hold under Spec (day ordinals).
StartDays ==
    {strptime(<<2024, 1, 1>>), strptime(<<2024, 1, 29>>),
     strptime(<<2024, 2, 26>>), strptime(<<2024, 3, 2>>)}

\* The end date of a form, as an offset in days from its start date.
EndOffsets == {-1, 4}

----------------------------------------------------------------------------
(* Page handlers and direct calls.                                         *)

\* The threads of the process that run PeriodTracker calls (Streamlit runs
\* each session's script in a thread of its own).
Threads == {1, 2}

\* A thread that is not inside add_cycle.
Idle == [pc |-> "idle"]

Init ==
    /\ cycles = <<>>
    /\ ret = [op |-> "init"]
    /\ calls = [t \in Threads |-> Idle]

\* log_period on submit, with the two date_input values (day ordinals).
LogPeriod(start_date, end_date) ==
    IF start_date > end_date
    THEN /\ ret' = [op |-> "log_period", start_date |-> strftime(start_date),
                    end_date |-> strftime(end_date), error |-> TRUE, cycle_id |-> None]
         /\ UNCHANGED <<cycles, calls>>
    ELSE \E t \in add_cycle(cycles, strftime(start_date), strftime(end_date)) :
            /\ cycles' = t
            /\ ret' = [op |-> "log_period", start_date |-> strftime(start_date),
                       end_date |-> strftime(end_date), error |-> FALSE,
                       cycle_id |-> Some(Len(t))]
            /\ UNCHANGED calls

\* PeriodTracker.add_cycle called with two date strings.
AddCycle(start_date, end_date) ==
    \E t \in add_cycle(cycles, start_date, end_date) :
        /\ cycles' = t
        /\ ret' = [op |-> "add_cycle", start_date |-> start_date,
                   end_date |-> end_date, error |-> FALSE, cycle_id |-> Some(Len(t))]
        /\ UNCHANGED calls

\* The quick-log form of show_dashboard on submit.
QuickLog(start_date, end_date) ==
    IF start_date > end_date
    THEN /\ ret' = [op |-> "quick_log", start_date |-> strftime(start_date),
                    end_date |-> strftime(end_date), error |-> TRUE, cycle_id |-> None]
         /\ UNCHANGED <<cycles, calls>>
    ELSE \E t \in add_cycle(cycles, strftime(start_date), strftime(end_date)) :
            /\ cycles' = t
            /\ ret' = [op |-> "quick_log", start_date |-> strftime(start_date),
                       end_date |-> strftime(end_date), error |-> FALSE,
                       cycle_id |-> Some(Len(t))]
            /\ UNCHANGED calls

\* PeriodTracker.get_cycles(limit).
GetCycles(limit) ==
    /\ \E r \in get_cycles(cycles, limit) :
          ret' = [op |-> "get_cycles", limit |-> Some(limit), rows |-> r]
    /\ UNCHANGED <<cycles, calls>>

\* PeriodTracker.get_cycles(), as show_history and show_statistics call it.
ShowHistory ==
    /\ \E r \in get_cycles(cycles, DefaultLimit) :
          ret' = [op |-> "get_cycles", limit |-> None, rows |-> r]
    /\ UNCHANGED <<cycles, calls>>

\* PeriodTracker.get_previous_cycle(current_start_date).
GetPreviousCycle(current_start_date) ==
    /\ \E r \in get_previous_cycle(cycles, current_start_date) :
          ret' = [op |-> "get_previous_cycle", date |-> current_start_date, row |-> r]
    /\ UNCHANGED <<cycles, calls>>

\* PeriodTracker.get_cycle_stats().
GetCycleStats ==
    /\ ret' = [op |-> "get_cycle_stats", stats |-> get_cycle_stats(cycles)]
    /\ UNCHANGED <<cycles, calls>>

\* PeriodTracker.predict_next_period().
PredictNextPeriod ==
    /\ \E r \in predict_next_period(cycles) :
          ret' = [op |-> "predict_next_period", next |-> r.next,
                  message |-> r.message, n |-> r.n]
    /\ UNCHANGED <<cycles, calls>>

\* show_predictions: the prediction, and the fertility window when there is one.
ShowPredictions ==
    /\ \E r \in predict_next_period(cycles) :
          ret' = [op |-> "show_predictions", next |-> r.next, message |-> r.message,
                  window |-> IF r.next # None THEN Some(fertility_window(r.next[1]))
                             ELSE None]
    /\ UNCHANGED <<cycles, calls>>

\* Limits get_cycles is called with (show_dashboard asks for 5; 1 and 2 cut
\* a small table short).
Limits == {1, 2, 5}

Next ==
    \/ \E s \in StartDays, o \in EndOffsets :
          /\ Len(cycles) < MaxRecords
          /\ LogPeriod(s, s + o)
    \/ \E s \in StartDays, o \in EndOffsets :
          /\ Len(cycles) < MaxRecords
          /\ QuickLog(s, s + o)
    \/ \E s \in StartDays, o \in EndOffsets :
          /\ Len(cycles) < MaxRecords
          /\ AddCycle(strftime(s), strftime(s + o))
    \/ \E k \in Limits : GetCycles(k)
    \/ ShowHistory
    \/ \E s \in StartDays : GetPreviousCycle(strftime(s))
    \/ GetCycleStats
    \/ PredictNextPeriod
    \/ ShowPredictions

Spec == Init /\ [][Next]_vars

----------------------------------------------------------------------------
(* Long histories over three start dates: more rows than predict_next_period *)
(* fetches.                                                                *)

DeepStartDays ==
    {strptime(<<2024, 1, 1>>), strptime(<<2024, 1, 29>>), strptime(<<2024, 2, 26>>)}

NextDeep ==
    \/ \E s \in DeepStartDays :
          /\ Len(cycles) < MaxDeepRecords
          /\ LogPeriod(s, s + 4)
    \/ PredictNextPeriod

SpecDeep == Init /\ [][NextDeep]_vars

----------------------------------------------------------------------------
(* One period logged every 28 days: more rows than get_cycles' default     *)
(* limit.                                                                  *)

NextBulk ==
    \/ /\ Len(cycles) < MaxBulkRecords
       /\ LogPeriod(strptime(<<2024, 1, 1>>) + 28 * Len(cycles),
                    strptime(<<2024, 1, 1>>) + 28 * Len(cycles) + 4)
    \/ ShowHistory
    \/ \E k \in Limits : GetCycles(k)

SpecBulk == Init /\ [][NextBulk]_vars

----------------------------------------------------------------------------
(* add_cycle run by two threads at once.  Each PeriodTracker holds its own *)
(* connection; a statement runs as a whole, the SELECT of the lookup and   *)
(* the INSERT with its commit are two statements with nothing to hold      *)
(* other threads off between them.                                         *)

\* Thread t enters add_cycle and runs get_previous_cycle: it keeps the row
\* returned until its INSERT.
AddCycleLookup(t, start_date, end_date) ==
    /\ calls[t] = Idle
    /\ \E p \in get_previous_cycle(cycles, start_date) :
          calls' = [calls EXCEPT ![t] = [pc |-> "insert", start_date |-> start_date,
                                         end_date |-> end_date, previous_cycle |-> p]]
    /\ UNCHANGED <<cycles, ret>>

\* Thread t runs its INSERT, commits and returns the new row's id.
AddCycleInsert(t) ==
    /\ calls[t].pc = "insert"
    /\ cycles' = Append(cycles, new_row(cycles, calls[t].start_date, calls[t].end_date,
                                        calls[t].previous_cycle))
    /\ ret' = [op |-> "add_cycle", start_date |-> calls[t].start_date,
               end_date |-> calls[t].end_date, error |-> FALSE,
               cycle_id |-> Some(Len(cycles) + 1)]
    /\ calls' = [calls EXCEPT ![t] = Idle]

\* The add_cycle calls under way.
UnderWay == {t \in Threads : calls[t] # Idle}

NextThreads ==
    \/ \E t \in Threads, s \in DeepStartDays :
          /\ Len(cycles) + Cardinality(UnderWay) < MaxThreadRecords
          /\ AddCycleLookup(t, strftime(s), strftime(s + 4))
    \/ \E t \in Threads : AddCycleInsert(t)

SpecThreads == Init /\ [][NextThreads]_vars

\* predict_next_period's results are those of predict_from over every list
\* get_cycles(6) may return.
PredictOverGetCycles ==
    predict_next_period(cycles) =
        {predict_from(fetched) : fetched \in get_cycles(cycles, PredictionCycles)}

----------------------------------------------------------------------------
(* What the claims are stated in: calendar days, not date strings.         *)

\* The calendar day (ordinal) row i of the table starts on.
StartDay(i) == strptime(cycles[i].start_date)

\* The last call inserted a row: it is the table's last row.
Inserted == ret.op \in {"log_period", "quick_log", "add_cycle"} /\ ~ret.error

NewRow == cycles[Len(cycles)]

\* The rows that were in the table before the last insert.
Before == 1..(Len(cycles) - 1)

MaxOf(S) == CHOOSE x \in S : \A y \in S : y <= x

RECURSIVE SumOver(_, _)
SumOver(f(_), S) ==
    IF S = {} THEN 0 ELSE LET i == CHOOSE i \in S : TRUE IN f(i) + SumOver(f, S \ {i})

\* The rows of I that hold a cycle_length.
WithLength(I) == {i \in I : cycles[i].cycle_length # None}

CycleLength(i) == cycles[i].cycle_length[1]

\* The sets of k rows with the greatest start days (of all rows, if the table
\* holds fewer): no row left out starts after a row taken.
Latest(k) ==
    LET all == 1..Len(cycles)
        want == IF k < Len(cycles) THEN k ELSE Len(cycles)
        sure == {i \in all : Cardinality({j \in all : StartDay(j) >= StartDay(i)}) <= want}
        cut == {i \in all \ sure : \A j \in all \ sure : StartDay(j) <= StartDay(i)}
    IN  {sure \cup C : C \in {C \in SUBSET cut : Cardinality(C) = want - Cardinality(sure)}}

----------------------------------------------------------------------------
(* C1.  add_cycle called with end_date before start_date fails with a      *)
(* validation error and writes nothing: the table after the call is the    *)
(* table before it.                                                        *)
C1_EndBeforeStartWritesNothing ==
    [][(/\ ret'.op = "add_cycle"
        /\ strptime(ret'.end_date) < strptime(ret'.start_date))
          => (ret'.error /\ cycles' = cycles)]_vars

(* C2.  The cycle_length stored on a new row is its start day minus the    *)
(* greatest start day before it among the rows already stored, and NULL    *)
(* exactly when no stored row starts strictly before it.                   *)
C2_CycleLengthFromPreviousStart ==
    Inserted =>
        LET d == strptime(NewRow.start_date)
            earlier == {StartDay(i) : i \in {i \in Before : StartDay(i) < d}}
        IN  /\ NewRow.start_date = ret.start_date
            /\ (earlier = {}) <=> (NewRow.cycle_length = None)
            /\ earlier # {} => NewRow.cycle_length = Some(d - MaxOf(earlier))

\* A row inserted between an earlier and a later one.
C2_Witness ==
    /\ Inserted
    /\ NewRow.cycle_length # None
    /\ \E i \in Before : StartDay(i) > strptime(NewRow.start_date)
    /\ \E i \in Before : StartDay(i) < strptime(NewRow.start_date)

(* C3, as claimed.  predict_next_period returns no date for a table of 0   *)
(* or 1 rows, and a date whenever the table holds at least 2 rows of which *)
(* at least one has a cycle_length.                                        *)
C3_PredictionWheneverALengthIsStored ==
    ret.op = "predict_next_period" =>
        /\ Len(cycles) <= 1 => ret.next = None
        /\ (Len(cycles) >= 2 /\ WithLength(1..Len(cycles)) # {}) => ret.next # None

(* C3, amended.  predict_next_period returns no date for a table of 0 or 1 *)
(* rows; for a table of at least 2 rows it returns a date exactly when one *)
(* of the 6 rows it fetches, those with the greatest start dates, has a    *)
(* cycle_length.                                                           *)
C3_PredictionWhenAFetchedLengthIsStored ==
    ret.op = "predict_next_period" =>
        /\ Len(cycles) <= 1 => ret.next = None
        /\ Len(cycles) >= 2 =>
              \E T \in Latest(PredictionCycles) : (ret.next # None) <=> (WithLength(T) # {})

\* A prediction over a table of more rows than are fetched, some without a
\* cycle_length.
C3_Witness ==
    /\ ret.op = "predict_next_period"
    /\ ret.next # None
    /\ Len(cycles) > PredictionCycles
    /\ WithLength(1..Len(cycles)) # 1..Len(cycles)

(* C4.  get_cycle_stats counts in total_cycles the rows that hold a        *)
(* cycle_length, not all rows, and averages the cycle lengths of those     *)
(* rows alone (no average when there is none).                             *)
C4_StatsOverRowsWithLength ==
    ret.op = "get_cycle_stats" =>
        LET I == WithLength(1..Len(cycles))
            avg == ret.stats.avg_cycle_length
        IN  /\ ret.stats.total_cycles = Cardinality(I)
            /\ (avg = None) <=> (I = {})
            /\ I # {} => avg[1][1] * Cardinality(I) = SumOver(CycleLength, I) * avg[1][2]

\* Statistics over a table holding rows with and without a cycle_length.
C4_Witness ==
    /\ ret.op = "get_cycle_stats"
    /\ WithLength(1..Len(cycles)) # {}
    /\ ret.stats.total_cycles < Len(cycles)

(* C5.  The table is append-only: every call leaves every stored row as it *)
(* was, also an add_cycle that inserts a row starting between a stored row *)
(* and the predecessor its cycle_length was computed from.                 *)
C5_AppendOnly ==
    [][/\ Len(cycles') >= Len(cycles)
       /\ \A i \in 1..Len(cycles) : cycles'[i] = cycles[i]]_vars

\* A stored cycle_length that a later insert has made stale: a row inserted
\* afterwards starts inside the cycle it measures.
C5_Witness ==
    \E i \in WithLength(1..Len(cycles)) : \E j \in (i + 1)..Len(cycles) :
        /\ StartDay(j) < StartDay(i)
        /\ StartDay(j) > StartDay(i) - CycleLength(i)

(* C6.  A predicted date is the greatest stored start day plus the mean of *)
(* the cycle lengths held by the 6 rows with the greatest start dates, a   *)
(* fractional mean cut down to whole days; after the inserts 2024-01-01,   *)
(* 2024-01-29, 2024-02-26 the mean is 28 and the date is 2024-03-25.       *)
C6_PredictedDate ==
    (ret.op = "predict_next_period" /\ ret.next # None) =>
        LET last == MaxOf({StartDay(i) : i \in 1..Len(cycles)})
            days == ret.next[1].day - last
        IN  /\ \E T \in Latest(PredictionCycles) :
                  LET n == Cardinality(WithLength(T))
                      total == SumOver(CycleLength, WithLength(T))
                  IN  /\ n > 0
                      /\ days * n <= total
                      /\ total < (days + 1) * n
            /\ [i \in 1..Len(cycles) |-> cycles[i].start_date]
                    = <<(<<2024, 1, 1>>), (<<2024, 1, 29>>), (<<2024, 2, 26>>)>>
                  => /\ strftime(ret.next[1].day) = <<2024, 3, 25>>
                     /\ ret.next[1].num = 0

\* A prediction from a fractional mean, over more rows than are fetched.
C6_Witness ==
    /\ ret.op = "predict_next_period"
    /\ ret.next # None
    /\ ret.next[1].num # 0
    /\ Len(cycles) > PredictionCycles

\* What a get_cycles call returned, against the limit k it ran with: k rows
\* (all, if the table holds fewer), each a stored row and none twice, by
\* start day from the latest down, no row left out starting after one returned.
LatestFirst(k) ==
    LET r == ret.rows
        all == 1..Len(cycles)
    IN  /\ Len(r) = (IF k < Len(cycles) THEN k ELSE Len(cycles))
        /\ \A a \in 1..Len(r) : r[a].id \in all /\ cycles[r[a].id] = r[a]
        /\ \A a, b \in 1..Len(r) : a # b => r[a].id # r[b].id
        /\ \A a, b \in 1..Len(r) :
              a < b => strptime(r[a].start_date) >= strptime(r[b].start_date)
        /\ \A i \in all : \A a \in 1..Len(r) :
              (\A b \in 1..Len(r) : r[b].id # i) => StartDay(i) <= strptime(r[a].start_date)

(* C7, as claimed.  get_cycles without a limit returns every stored row    *)
(* once, whatever the size of the table, and get_cycles with or without a  *)
(* limit returns its rows by start date from the latest down, a limit n    *)
(* giving the n rows with the greatest start dates.                        *)
C7_NoLimitReturnsAll ==
    ret.op = "get_cycles" =>
        IF ret.limit = None THEN LatestFirst(Len(cycles)) ELSE LatestFirst(ret.limit[1])

(* C7, amended.  get_cycles without a limit returns the 50 rows with the   *)
(* greatest start dates, which is every stored row once while the table    *)
(* holds at most 50; with or without a limit its rows come by start date   *)
(* from the latest down, a limit n giving the n rows with the greatest     *)
(* start dates.                                                            *)
C7_NoLimitReturnsLatestFifty ==
    ret.op = "get_cycles" =>
        IF ret.limit = None THEN LatestFirst(DefaultLimit) ELSE LatestFirst(ret.limit[1])

\* get_cycles without a limit over a table of more rows than the default.
C7_Witness ==
    /\ ret.op = "get_cycles"
    /\ ret.limit = None
    /\ Len(cycles) > DefaultLimit
    /\ Len(ret.rows) = DefaultLimit

(* C8.  get_previous_cycle(d) returns a stored row whose start day is the  *)
(* greatest one strictly before d, and nothing exactly when no stored row  *)
(* starts strictly before d; a row starting on d is never returned.  So    *)
(* right after add_cycle stored a cycle_length c on a row starting on d,   *)
(* get_previous_cycle(d) returns a row starting on d minus c days.         *)
C8_PreviousCycle ==
    /\ [](ret.op = "get_previous_cycle" =>
            LET d == strptime(ret.date)
                earlier == {i \in 1..Len(cycles) : StartDay(i) < d}
            IN  /\ (ret.row = None) <=> (earlier = {})
                /\ ret.row # None =>
                      /\ ret.row[1].id \in earlier
                      /\ cycles[ret.row[1].id] = ret.row[1]
                      /\ \A i \in earlier : StartDay(i) <= strptime(ret.row[1].start_date)
                      /\ strptime(ret.row[1].start_date) # d)
    /\ [][(/\ Inserted
           /\ NewRow.cycle_length # None
           /\ ret'.op = "get_previous_cycle"
           /\ ret'.date = NewRow.start_date)
             => /\ ret'.row # None
                /\ strptime(ret'.row[1].start_date)
                      = strptime(NewRow.start_date) - NewRow.cycle_length[1]]_vars

\* A row returned while another row starts on the day asked about and a
\* third starts before the one returned.
C8_Witness ==
    /\ ret.op = "get_previous_cycle"
    /\ ret.row # None
    /\ \E i \in 1..Len(cycles) : cycles[i].start_date = ret.date
    /\ \E i \in 1..Len(cycles) : StartDay(i) < strptime(ret.row[1].start_date)

(* C9.  For end_date on or after start_date, the period_length stored on   *)
(* the new row is the number of days from start_date to end_date plus 1,   *)
(* the days of the period counted with both ends, whatever the table held. *)
C9_PeriodLength ==
    (Inserted /\ strptime(ret.end_date) >= strptime(ret.start_date)) =>
        /\ NewRow.start_date = ret.start_date
        /\ NewRow.end_date = ret.end_date
        /\ NewRow.period_length
              = Cardinality(strptime(ret.start_date)..strptime(ret.end_date))
        /\ NewRow.period_length >= 1

\* A period over the end of February, inserted into a table that holds rows.
C9_Witness ==
    /\ Inserted
    /\ Len(cycles) > 1
    /\ ret.start_date = <<2024, 2, 26>>
    /\ ret.end_date = <<2024, 3, 1>>
    /\ NewRow.period_length = 5

(* C10.  The fertility window of a predicted start p has its ovulation on  *)
(* p - 14 days, starts on p - 19 and ends on p - 13, so start < ovulation  *)
(* < end < p; for p = 2024-03-25 the ovulation is on 2024-03-11 and the    *)
(* window runs 2024-03-06 .. 2024-03-12.  There is a window exactly when   *)
(* predict_next_period returned a prediction.                              *)
C10_FertilityWindow ==
    ret.op = "show_predictions" =>
        /\ (ret.window # None) <=> (ret.next # None)
        /\ ret.next # None =>
              LET p == ret.next[1].day
                  ovulation == ret.window[1].ovulation_date.day
                  first == ret.window[1].fertility_start.day
                  last == ret.window[1].fertility_end.day
              IN  /\ ovulation = p - 14
                  /\ first = p - 19
                  /\ last = p - 13
                  /\ first < ovulation /\ ovulation < last /\ last < p
                  /\ strftime(p) = <<2024, 3, 25>> =>
                        /\ strftime(ovulation) = <<2024, 3, 11>>
                        /\ strftime(first) = <<2024, 3, 6>>
                        /\ strftime(last) = <<2024, 3, 12>>

\* The window of a prediction for 2024-03-25.
C10_Witness ==
    /\ ret.op = "show_predictions"
    /\ ret.next # None
    /\ strftime(ret.next[1].day) = <<2024, 3, 25>>

(* C11.  Two add_cycle calls of different threads are serialized: between *)
(* the lookup and the insert of one call the other call inserts nothing,   *)
(* so every stored row's cycle_length is its start day minus the greatest  *)
(* strictly earlier start day among the rows in the table when it was      *)
(* inserted (the rows of smaller id), and NULL if there was none.          *)
C11_CycleLengthAsOfInsert ==
    \A i \in 1..Len(cycles) :
        LET earlier == {StartDay(j) : j \in {j \in 1..(i - 1) : StartDay(j) < StartDay(i)}}
        IN  /\ (earlier = {}) <=> (cycles[i].cycle_length = None)
            /\ earlier # {} => cycles[i].cycle_length = Some(StartDay(i) - MaxOf(earlier))

\* C11's first half, step by step: while a thread is between its lookup and
\* its insert, no step of another thread adds a row.
C11_NoInsertInsideACall ==
    [][\A t \in Threads :
          (calls[t].pc = "insert" /\ calls'[t].pc = "insert") => cycles' = cycles]_vars

====
